---- MODULE Spec2Model ----
(***************************************************************************)
(* Model of iota's Editor (src/src/iota/editor.rs): the key bindings, the  *)
(* main loop of Editor::start, handle_key_event, handle_resize_event,      *)
(* fire_event and process_event.  KeyMap, View and Buffer are used by the  *)
(* Editor but their code is in other files; they are modelled from the     *)
(* design text (sections 4.1 to 4.5).                                      *)
(***************************************************************************)
EXTENDS Integers, Sequences, FiniteSets, TLC

VARIABLES
    pc,            \* position of the program: "new" (constructed), the steps of start's loop, "done"
    running,       \* Editor.running
    mode,          \* Editor.mode, given to Editor::new and never changed afterwards
    bindings,      \* Editor.keymap: the bound key sequences, a set of <<keys, event>>
    kpath,         \* Editor.keymap: the keys of the partial match so far
    events_queue,  \* Editor.events_queue
    buffer,        \* buffers[0]: text, the cursor mark, undo and redo stacks, whether it has a file path
    view,          \* Editor.view: overlay, status line, dimensions
    event,         \* the EditorEvent the loop body holds (local `event` of start)
    fired,         \* history: the events given to fire_event in this iteration, in order
    processed,     \* history: the events given to process_event in this iteration, in order
    steps,         \* history: the steps of the current loop iteration, in order
    drawn,         \* history: the buffer as it was drawn, until the event is dispatched
    rootAtPoll,    \* history: whether the key matcher was at its root when the event was polled
    fed,           \* history: the characters typed so far, while nothing else has happened
    script,        \* the keys a scripted frontend has yet to deliver (none: any event comes)
    stacksBefore,  \* history: the depths of the undo and redo stacks before the last handler ran
    bound          \* history: the bind_keys calls made before start, when they are recorded

vars == <<pc, running, mode, bindings, kpath, events_queue, buffer, view, event,
          fired, processed, steps, drawn, rootAtPoll, fed, script, stacksBefore, bound>>

---------------------------------------------------------------------------
(* Bounds of the model *)

\* the longest text the frontend is made to type
MaxLen == 2
\* the deepest undo stack the frontend is made to build
MaxHist == 2
\* the most bind_keys calls made before start, where they are recorded
MaxBinds == 3

---------------------------------------------------------------------------
(* Small helpers *)

Min(a, b) == IF a < b THEN a ELSE b

Max(a, b) == IF a > b THEN a ELSE b

\* s with the sequence t inserted at offset p (0 = before the first element)
InsertAt(s, p, t) == SubSeq(s, 1, p) \o t \o SubSeq(s, p + 1, Len(s))

\* s without the half-open range [from, to)
RemoveRange(s, from, to) == SubSeq(s, 1, from) \o SubSeq(s, to + 1, Len(s))

IsStrictPrefix(p, s) == Len(p) < Len(s) /\ SubSeq(s, 1, Len(p)) = p

---------------------------------------------------------------------------
(* Keys and key strings *)

\* the characters the frontend types
Chars == {"a", "b"}

\* the newline character inserted by iota.newline
Newline == "LF"

\* Key::from: one part of a key string to a Key, <<kind, argument>>
KeyFrom(part) ==
    CASE part = "up"        -> <<"Up", "">>
      [] part = "down"      -> <<"Down", "">>
      [] part = "left"      -> <<"Left", "">>
      [] part = "right"     -> <<"Right", "">>
      [] part = "backspace" -> <<"Backspace", "">>
      [] part = "delete"    -> <<"Delete", "">>
      [] part = "enter"     -> <<"Enter", "">>
      [] part = "ctrl-q"    -> <<"Ctrl", "q">>
      [] part = "ctrl-z"    -> <<"Ctrl", "z">>
      [] part = "ctrl-r"    -> <<"Ctrl", "r">>
      [] part = "ctrl-s"    -> <<"Ctrl", "s">>
      [] part = "f1"        -> <<"F", "1">>
      [] OTHER              -> <<"Char", part>>

\* key_str.split(' '): a key string is a sequence of key names and " " separators
RECURSIVE SplitSpaces(_)
SplitSpaces(str) ==
    IF \A i \in 1..Len(str) : str[i] # " "
    THEN <<str>>
    ELSE LET i == CHOOSE j \in 1..Len(str) :
                      str[j] = " " /\ \A k \in 1..(j - 1) : str[k] # " "
         IN <<SubSeq(str, 1, i - 1)>> \o SplitSpaces(SubSeq(str, i + 1, Len(str)))

\* the Vec<Key> bind_keys builds from a key string (each part here is one key name)
RECURSIVE KeysOf(_)
KeysOf(parts) ==
    IF parts = <<>> THEN <<>>
    ELSE <<KeyFrom(Head(parts)[1])>> \o KeysOf(Tail(parts))

\* the keys the frontend can report
Keys ==
    {<<"Char", c>> : c \in Chars} \cup
    {KeyFrom(n) : n \in {"up", "down", "left", "right", "backspace", "delete",
                         "enter", "ctrl-q", "ctrl-z", "ctrl-r", "ctrl-s", "f1"}}

---------------------------------------------------------------------------
(* KeyMap (design 4.1) *)

\* KeyMap::bind_keys: registers the binding of keys, or overwrites it
KeyMapBind(bs, keys, ev) == {b \in bs : b[1] # keys} \cup {<<keys, ev>>}

\* KeyMap::check_key: feeds one key; the result and the partial match kept
CheckKey(bs, path, key) ==
    LET p == Append(path, key) IN
    IF \E b \in bs : IsStrictPrefix(p, b[1])
    THEN [state |-> "Continue", event |-> "", path |-> p]
    ELSE IF \E b \in bs : b[1] = p
    THEN [state |-> "Match", event |-> (CHOOSE b \in bs : b[1] = p)[2], path |-> <<>>]
    ELSE [state |-> "None", event |-> "", path |-> <<>>]

---------------------------------------------------------------------------
(* Buffer (design 4.3) and the Text Object Resolver (design 4.2) *)

\* an edit operation: insert `text` at `pos`, or delete the |text| characters at `pos`
InsertEdit(pos, text) == [kind |-> "insert", pos |-> pos, text |-> text]

DeleteEdit(pos, text) == [kind |-> "delete", pos |-> pos, text |-> text]

\* the edit that reverts e
Inverse(e) == IF e.kind = "insert" THEN DeleteEdit(e.pos, e.text) ELSE InsertEdit(e.pos, e.text)

\* a mark at m after `n` characters were inserted at pos: marks at or after the
\* edit point shift forward by the inserted length
MarkAfterInsert(m, pos, n) == IF m >= pos THEN m + n ELSE m

\* a mark at m after [pos, pos + n) was deleted: marks shift backward by the overlap
\* with the deleted range, a mark inside the range is clamped to its start
MarkAfterDelete(m, pos, n) ==
    IF m >= pos + n THEN m - n
    ELSE IF m > pos THEN pos
    ELSE m

\* the edit e applied to the text and the marks of b (the stacks are left alone)
ApplyEdit(b, e) ==
    IF e.kind = "insert"
    THEN [b EXCEPT !.text = InsertAt(b.text, e.pos, e.text),
                   !.cursor = MarkAfterInsert(b.cursor, e.pos, Len(e.text))]
    ELSE [b EXCEPT !.text = RemoveRange(b.text, e.pos, e.pos + Len(e.text)),
                   !.cursor = MarkAfterDelete(b.cursor, e.pos, Len(e.text))]

\* a mutating operation: applies e, pushes its inverse onto the undo stack and
\* clears the redo stack
Mutate(b, e) ==
    [ApplyEdit(b, e) EXCEPT !.undo = <<Inverse(e)>> \o b.undo, !.redo = <<>>]

\* Buffer.insert(mark, text), the mark being the cursor
BufferInsert(b, text) == Mutate(b, InsertEdit(b.cursor, text))

\* Buffer.delete(range), the positions clamped to the text
BufferDelete(b, from, to) ==
    LET f == Max(0, Min(from, Len(b.text)))
        t == Max(f, Min(to, Len(b.text)))
    IN Mutate(b, DeleteEdit(f, SubSeq(b.text, f + 1, t)))

\* Buffer.undo: pops and applies the inverse, pushes the original onto the redo
\* stack; a no-op on an empty stack
BufferUndo(b) ==
    IF b.undo = <<>> THEN b
    ELSE LET inv == Head(b.undo) IN
         [ApplyEdit(b, inv) EXCEPT !.undo = Tail(b.undo),
                                   !.redo = <<Inverse(inv)>> \o b.redo]

\* Buffer.redo: the mirror of undo
BufferRedo(b) ==
    IF b.redo = <<>> THEN b
    ELSE LET e == Head(b.redo) IN
         [ApplyEdit(b, e) EXCEPT !.redo = Tail(b.redo),
                                 !.undo = <<Inverse(e)>> \o b.undo]

\* resolve(buffer, mark, text_object) for Kind::Char: the half-open range <<from, to>>
Resolve(b, dir, n) ==
    IF dir = "Backward"
    THEN <<Max(0, b.cursor - n), b.cursor>>
    ELSE <<b.cursor, Min(Len(b.text), b.cursor + n)>>

\* offset of the start of the line holding offset pos
LineStart(text, pos) ==
    IF \E i \in 1..pos : text[i] = Newline
    THEN CHOOSE i \in 1..pos : text[i] = Newline /\ \A j \in (i + 1)..pos : text[j] # Newline
    ELSE 0

\* offset of the end of the line holding offset pos (its newline, or the text's end)
LineEnd(text, pos) ==
    IF \E i \in (pos + 1)..Len(text) : text[i] = Newline
    THEN (CHOOSE i \in (pos + 1)..Len(text) :
              text[i] = Newline /\ \A j \in (pos + 1)..(i - 1) : text[j] # Newline) - 1
    ELSE Len(text)

---------------------------------------------------------------------------
(* View (design 4.5) *)

\* View.insert_char: Buffer.insert at the primary mark, the primary mark then one
\* past where it was
ViewInsertChar(b, ch) == [BufferInsert(b, <<ch>>) EXCEPT !.cursor = b.cursor + 1]

\* View.delete_from_mark_to_object(Cursor, TextObject{Char, dir(n, Cursor)})
ViewDeleteFromMarkToObject(b, dir, n) ==
    LET r == Resolve(b, dir, n) IN BufferDelete(b, r[1], r[2])

ViewUndo(b) == BufferUndo(b)

ViewRedo(b) == BufferRedo(b)

\* View.move_left / move_right: one character, clamped to the buffer
ViewMoveLeft(b) == [b EXCEPT !.cursor = Max(0, b.cursor - 1)]

ViewMoveRight(b) == [b EXCEPT !.cursor = Min(Len(b.text), b.cursor + 1)]

\* View.move_up / move_down: one line, the column kept where the line is long
\* enough, clamped to the buffer
ViewMoveUp(b) ==
    LET ls == LineStart(b.text, b.cursor) IN
    IF ls = 0 THEN b
    ELSE LET ps == LineStart(b.text, ls - 1) IN
         [b EXCEPT !.cursor = Min(ps + (b.cursor - ls), ls - 1)]

ViewMoveDown(b) ==
    LET le == LineEnd(b.text, b.cursor) IN
    IF le = Len(b.text) THEN b
    ELSE [b EXCEPT !.cursor = Min((le + 1) + (b.cursor - LineStart(b.text, b.cursor)),
                                  LineEnd(b.text, le + 1))]

\* View.resize
ViewResize(v, width, height) == [v EXCEPT !.width = width, !.height = height]

\* View.try_save_buffer: the set of outcomes [buffer, view].  With a file path the
\* write succeeds or fails with IOError; without one the
\* save fails with NoPathError, and the View may ask for a path with its
\* save-as prompt (Overlay::SavePrompt).  A failure shows on the status line.
ViewTrySaveBuffer(b, v) ==
    IF b.file_path
    THEN {[buffer |-> b, view |-> [v EXCEPT !.status = ""]],
          [buffer |-> b, view |-> [v EXCEPT !.status = "IOError"]]}
    ELSE {[buffer |-> b, view |-> [v EXCEPT !.status = "NoPathError"]],
          [buffer |-> b, view |-> [v EXCEPT !.status = "NoPathError",
                                            !.overlay = "SavePrompt"]]}

---------------------------------------------------------------------------
(* Editor (src/src/iota/editor.rs) *)

\* Event::new(name): an event is its name
EventNew(name) == name

\* the EditorEvents of the frontend
KeyEvent(optkey) == [type |-> "KeyEvent", key |-> optkey, width |-> 0, height |-> 0]

Resize(w, h) == [type |-> "Resize", key |-> <<>>, width |-> w, height |-> h]

OtherEvent == [type |-> "Other", key |-> <<>>, width |-> 0, height |-> 0]

\* no event held: before the first poll_event and between two iterations
NoEvent == [type |-> "NoEvent", key |-> <<>>, width |-> 0, height |-> 0]

\* the window size the frontend reports to Editor::new, and those of its Resize events
InitSize == <<80, 24>>

Sizes == {<<80, 24>>, <<40, 10>>}

\* the key strings and events given to the public bind_keys before start
UserKeyStrs == {<<"a", " ", "b">>, <<"a">>}

UserEvents == {"iota.undo", "ext.custom"}

\* bind_keys that keeps the event a key sequence is already bound to
BindKeysOn_KeepsFirst(bs, key_str, ev) ==
    IF \E b \in bs : b[1] = KeysOf(SplitSpaces(key_str))
    THEN bs
    ELSE KeyMapBind(bs, KeysOf(SplitSpaces(key_str)), EventNew(ev))

\* Editor::bind_keys on the keymap
BindKeysOn(bs, key_str, ev) == KeyMapBind(bs, KeysOf(SplitSpaces(key_str)), EventNew(ev))

\* Editor::register_key_bindings on the keymap
DefaultBindings ==
    << <<"up", "iota.move_up">>, <<"down", "iota.move_down">>,
       <<"left", "iota.move_left">>, <<"right", "iota.move_right">>,
       <<"ctrl-q", "iota.quit">>,
       <<"backspace", "iota.delete_backwards">>, <<"delete", "iota.delete_forwards">>,
       <<"enter", "iota.newline">>,
       <<"ctrl-z", "iota.undo">>, <<"ctrl-r", "iota.redo">>, <<"ctrl-s", "iota.save">> >>

RECURSIVE RegisterFrom(_, _)
RegisterFrom(bs, i) ==
    IF i > Len(DefaultBindings) THEN bs
    ELSE RegisterFrom(BindKeysOn(bs, <<DefaultBindings[i][1]>>, DefaultBindings[i][2]), i + 1)

RegisterKeyBindings(bs) == RegisterFrom(bs, 1)

\* fire_event that loses the event
FireEvent_Lost(q, ev) == q

\* fire_event that queues the event twice
FireEvent_Twice(q, ev) == Append(Append(q, ev), ev)

\* Editor::fire_event on the queue
FireEvent(q, ev) == Append(q, ev)

\* handle_key_event that never inserts the unmatched key
HandleKeyEvent_NoInsert(optkey, bs, path, q, b) ==
    IF optkey = <<>>
    THEN [kpath |-> path, queue |-> q, buffer |-> b, fire |-> <<>>, state |-> "NoKey"]
    ELSE LET r == CheckKey(bs, path, optkey[1]) IN
         [kpath |-> r.path,
          queue |-> IF r.state = "Match" THEN FireEvent(q, r.event) ELSE q,
          buffer |-> b,
          fire |-> IF r.state = "Match" THEN <<r.event>> ELSE <<>>,
          state |-> r.state]

\* handle_key_event that forgets the partial match when the keymap answers Continue
HandleKeyEvent_PendingReset(optkey, bs, path, q, b) ==
    IF optkey = <<>>
    THEN [kpath |-> path, queue |-> q, buffer |-> b, fire |-> <<>>, state |-> "NoKey"]
    ELSE LET key == optkey[1]
             r == CheckKey(bs, path, key)
         IN [kpath |-> IF r.state = "Continue" THEN <<>> ELSE r.path,
             queue |-> IF r.state = "Match" THEN FireEvent(q, r.event) ELSE q,
             buffer |-> IF r.state = "None" /\ key[1] = "Char"
                        THEN ViewInsertChar(b, key[2]) ELSE b,
             fire |-> IF r.state = "Match" THEN <<r.event>> ELSE <<>>,
             state |-> r.state]

\* handle_key_event that inserts the key when the keymap answers Continue
HandleKeyEvent_PendingInserted(optkey, bs, path, q, b) ==
    IF optkey = <<>>
    THEN [kpath |-> path, queue |-> q, buffer |-> b, fire |-> <<>>, state |-> "NoKey"]
    ELSE LET key == optkey[1]
             r == CheckKey(bs, path, key)
         IN [kpath |-> r.path,
             queue |-> IF r.state = "Match" THEN FireEvent(q, r.event) ELSE q,
             buffer |-> IF r.state \in {"None", "Continue"} /\ key[1] = "Char"
                        THEN ViewInsertChar(b, key[2]) ELSE b,
             fire |-> IF r.state = "Match" THEN <<r.event>> ELSE <<>>,
             state |-> r.state]

\* handle_key_event that resets the keymap's partial match when there is no key
HandleKeyEvent_NoKeyResets(optkey, bs, path, q, b) ==
    IF optkey = <<>>
    THEN [kpath |-> <<>>, queue |-> q, buffer |-> b, fire |-> <<>>, state |-> "NoKey"]
    ELSE LET key == optkey[1]
             r == CheckKey(bs, path, key)
         IN [kpath |-> r.path,
             queue |-> IF r.state = "Match" THEN FireEvent(q, r.event) ELSE q,
             buffer |-> IF r.state = "None" /\ key[1] = "Char"
                        THEN ViewInsertChar(b, key[2]) ELSE b,
             fire |-> IF r.state = "Match" THEN <<r.event>> ELSE <<>>,
             state |-> r.state]

\* handle_key_event that inserts the unmatched key whatever its kind
HandleKeyEvent_InsertsAnyKey(optkey, bs, path, q, b) ==
    IF optkey = <<>>
    THEN [kpath |-> path, queue |-> q, buffer |-> b, fire |-> <<>>, state |-> "NoKey"]
    ELSE LET key == optkey[1]
             r == CheckKey(bs, path, key)
         IN [kpath |-> r.path,
             queue |-> IF r.state = "Match" THEN FireEvent(q, r.event) ELSE q,
             buffer |-> IF r.state = "None" THEN ViewInsertChar(b, key[2]) ELSE b,
             fire |-> IF r.state = "Match" THEN <<r.event>> ELSE <<>>,
             state |-> r.state]

\* Editor::handle_key_event: the keymap's partial match, the queue and the buffer
\* after it, and the events it gave to fire_event
HandleKeyEvent(optkey, bs, path, q, b) ==
    IF optkey = <<>>
    THEN [kpath |-> path, queue |-> q, buffer |-> b, fire |-> <<>>, state |-> "NoKey"]
    ELSE LET key == optkey[1]
             r == CheckKey(bs, path, key)
         IN CASE r.state = "Match" ->
                     [kpath |-> r.path, queue |-> FireEvent(q, r.event), buffer |-> b,
                      fire |-> <<r.event>>, state |-> r.state]
              [] r.state = "Continue" ->
                     [kpath |-> r.path, queue |-> q, buffer |-> b,
                      fire |-> <<>>, state |-> r.state]
              [] OTHER ->
                     [kpath |-> r.path, queue |-> q,
                      buffer |-> IF key[1] = "Char" THEN ViewInsertChar(b, key[2]) ELSE b,
                      fire |-> <<>>, state |-> r.state]

\* handle_resize_event that does not reach the View
HandleResizeEvent_Ignored(v, width, height) == v

\* Editor::handle_resize_event
HandleResizeEvent(v, width, height) == ViewResize(v, width, height)

\* the match on event.get_name() in process_event: the outcomes [running, buffer,
\* view] of one event
ProcessEventMatch(name, r, b, v) ==
    CASE name = "iota.quit" -> {[running |-> FALSE, buffer |-> b, view |-> v]}
      [] name = "iota.undo" -> {[running |-> r, buffer |-> ViewUndo(b), view |-> v]}
      [] name = "iota.redo" -> {[running |-> r, buffer |-> ViewRedo(b), view |-> v]}
      [] name = "iota.save" ->
             {[running |-> r, buffer |-> o.buffer, view |-> o.view] :
                  o \in ViewTrySaveBuffer(b, v)}
      [] name = "iota.newline" ->
             {[running |-> r, buffer |-> ViewInsertChar(b, Newline), view |-> v]}
      [] name = "iota.delete_backwards" ->
             {[running |-> r, buffer |-> ViewDeleteFromMarkToObject(b, "Backward", 1),
               view |-> v]}
      [] name = "iota.delete_forwards" ->
             {[running |-> r, buffer |-> ViewDeleteFromMarkToObject(b, "Forward", 1),
               view |-> v]}
      [] name = "iota.move_up" -> {[running |-> r, buffer |-> ViewMoveUp(b), view |-> v]}
      [] name = "iota.move_down" -> {[running |-> r, buffer |-> ViewMoveDown(b), view |-> v]}
      [] name = "iota.move_left" -> {[running |-> r, buffer |-> ViewMoveLeft(b), view |-> v]}
      [] name = "iota.move_right" -> {[running |-> r, buffer |-> ViewMoveRight(b), view |-> v]}
      [] OTHER -> {[running |-> r, buffer |-> b, view |-> v]}

\* process_event whose quit leaves the editor running
ProcessEventOn_QuitIgnored(name, r, b, v) ==
    IF name = "iota.quit" THEN {[running |-> r, buffer |-> b, view |-> v]}
    ELSE ProcessEventMatch(name, r, b, v)

\* process_event that stops the editor when the save fails
ProcessEventOn_SaveStops(name, r, b, v) ==
    IF name = "iota.save"
    THEN {[running |-> r /\ o.view.status = "", buffer |-> o.buffer, view |-> o.view] :
              o \in ViewTrySaveBuffer(b, v)}
    ELSE ProcessEventMatch(name, r, b, v)

\* process_event whose delete_backwards deletes forward, like delete_forwards
ProcessEventOn_BackwardIsForward(name, r, b, v) ==
    IF name = "iota.delete_backwards"
    THEN ProcessEventMatch("iota.delete_forwards", r, b, v)
    ELSE ProcessEventMatch(name, r, b, v)

\* process_event that takes a redo with nothing to redo for an error and stops
ProcessEventOn_EmptyRedoStops(name, r, b, v) ==
    IF name = "iota.redo" /\ b.redo = <<>>
    THEN {[running |-> FALSE, buffer |-> b, view |-> v]}
    ELSE ProcessEventMatch(name, r, b, v)

\* process_event whose deletes and newline leave the redo stack as it was
ProcessEventOn_EditKeepsRedo(name, r, b, v) ==
    IF name \in {"iota.newline", "iota.delete_backwards", "iota.delete_forwards"}
    THEN {[o EXCEPT !.buffer.redo = b.redo] : o \in ProcessEventMatch(name, r, b, v)}
    ELSE ProcessEventMatch(name, r, b, v)

\* Editor::process_event
ProcessEventOn(name, r, b, v) == ProcessEventMatch(name, r, b, v)

---------------------------------------------------------------------------
(* Initial state: Editor::new *)

\* the texts Buffer::from(source) loads from a file
InitTexts == {<<"b", "a">>}

\* Buffer::from(source): an empty unnamed buffer, or the text of the file at a path
InitBuffers ==
    {[text |-> <<>>, cursor |-> 0, undo |-> <<>>, redo |-> <<>>,
      file_path |-> FALSE]} \cup
    {[text |-> t, cursor |-> 0, undo |-> <<>>, redo |-> <<>>,
      file_path |-> TRUE] : t \in InitTexts}

NotDrawn == [valid |-> FALSE, text |-> <<>>, cursor |-> 0]

\* the depths of the undo and redo stacks of b
StackDepths(b) == [undo |-> Len(b.undo), redo |-> Len(b.redo)]

NoStacks == [undo |-> 0, redo |-> 0]

Init ==
    /\ pc = "new"
    /\ running = TRUE
    /\ mode \in {"insert", "normal"}
    /\ bindings = {}
    /\ kpath = <<>>
    /\ events_queue = <<>>
    /\ buffer \in InitBuffers
    /\ view = [overlay |-> "None", status |-> "",
               width |-> InitSize[1], height |-> InitSize[2]]
    /\ event = NoEvent
    /\ fired = <<>>
    /\ processed = <<>>
    /\ steps = <<>>
    /\ drawn = NotDrawn
    /\ rootAtPoll = TRUE
    /\ fed = [pure |-> buffer.text = <<>>, chars |-> <<>>]
    /\ script = <<>>
    /\ stacksBefore = NoStacks
    /\ bound = <<>>

---------------------------------------------------------------------------
(* Actions *)

\* bind_keys called on the constructed Editor, before start
BindKeys ==
    /\ pc = "new"
    /\ \E ks \in UserKeyStrs, ev \in UserEvents : bindings' = BindKeysOn(bindings, ks, ev)
    /\ UNCHANGED <<bound, stacksBefore, script, pc, running, mode, kpath, events_queue, buffer, view, event,
                   fired, processed, steps, drawn, rootAtPoll, fed>>

\* start, up to its loop: register_key_bindings
Start ==
    /\ pc = "new"
    /\ bindings' = RegisterKeyBindings(bindings)
    /\ pc' = "loop"
    /\ UNCHANGED <<bound, stacksBefore, script, running, mode, kpath, events_queue, buffer, view, event,
                   fired, processed, steps, drawn, rootAtPoll, fed>>

\* a loop that does not dispatch the polled event
AfterPoll_NoDispatch == "drain"

\* where the loop goes after poll_event returned
AfterPoll == "dispatch"

\* a loop that does not drain the queue
AfterDispatch_NoDrain == "loop"

\* where the loop goes after the event was dispatched
AfterDispatch == "drain"

\* `while self.running` holds: self.draw()
Draw ==
    /\ pc = "loop"
    /\ running
    /\ pc' = "present"
    /\ steps' = <<"draw">>
    /\ drawn' = [valid |-> TRUE, text |-> buffer.text, cursor |-> buffer.cursor]
    /\ UNCHANGED <<bound, stacksBefore, script, running, mode, bindings, kpath, events_queue, buffer, view, event,
                   fired, processed, rootAtPoll, fed>>

\* self.frontend.present()
Present ==
    /\ pc = "present"
    /\ pc' = "poll"
    /\ steps' = Append(steps, "present")
    /\ UNCHANGED <<bound, stacksBefore, script, running, mode, bindings, kpath, events_queue, buffer, view, event,
                   fired, processed, drawn, rootAtPoll, fed>>

\* the events the frontend delivers: every key, no key, a resize, anything else;
\* keys that make the text or the undo stack grow only below the model's bounds
FrontendEvents(b) ==
    {KeyEvent(<<k>>) : k \in {x \in Keys :
         /\ (x[1] \in {"Char", "Enter"} => Len(b.text) < MaxLen)
         /\ (x[1] \in {"Char", "Enter", "Backspace", "Delete"} => Len(b.undo) < MaxHist)}}
    \cup {KeyEvent(<<>>), OtherEvent}
    \cup {Resize(sz[1], sz[2]) : sz \in Sizes}

\* let event = self.frontend.poll_event()
PollEvent ==
    /\ pc = "poll"
    /\ \E ev \in FrontendEvents(buffer) : event' = ev
    /\ pc' = AfterPoll
    /\ steps' = Append(steps, "poll")
    /\ rootAtPoll' = (kpath = <<>>)
    /\ UNCHANGED <<bound, stacksBefore, script, running, mode, bindings, kpath, events_queue, buffer, view,
                   fired, processed, drawn, fed>>

\* the characters typed so far, after the event ev was dispatched with result r
FedAfter(ev, r) ==
    IF /\ fed.pure
       /\ ev.type = "KeyEvent" /\ ev.key # <<>> /\ ev.key[1][1] = "Char"
       /\ r.state = "None"
    THEN [pure |-> TRUE, chars |-> Append(fed.chars, ev.key[1][2])]
    ELSE [pure |-> FALSE, chars |-> <<>>]

\* match event: EditorEvent::KeyEvent(key) => self.handle_key_event(key)
DispatchKey ==
    /\ pc = "dispatch"
    /\ event.type = "KeyEvent"
    /\ LET r == HandleKeyEvent(event.key, bindings, kpath, events_queue, buffer) IN
         /\ kpath' = r.kpath
         /\ events_queue' = r.queue
         /\ buffer' = r.buffer
         /\ fired' = fired \o r.fire
         /\ fed' = FedAfter(event, r)
    /\ pc' = AfterDispatch
    /\ steps' = Append(steps, "dispatch")
    /\ drawn' = NotDrawn
    /\ stacksBefore' = StackDepths(buffer)
    /\ UNCHANGED <<bound, script, running, mode, bindings, view, event, processed, rootAtPoll>>

\* match event: EditorEvent::Resize(width, height) => self.handle_resize_event(..)
DispatchResize ==
    /\ pc = "dispatch"
    /\ event.type = "Resize"
    /\ view' = HandleResizeEvent(view, event.width, event.height)
    /\ pc' = AfterDispatch
    /\ steps' = Append(steps, "dispatch")
    /\ drawn' = NotDrawn
    /\ fed' = [pure |-> FALSE, chars |-> <<>>]
    /\ UNCHANGED <<bound, stacksBefore, script, running, mode, bindings, kpath, events_queue, buffer, event,
                   fired, processed, rootAtPoll>>

\* match event: _ => {}
DispatchOther ==
    /\ pc = "dispatch"
    /\ event.type \notin {"KeyEvent", "Resize"}
    /\ pc' = AfterDispatch
    /\ steps' = Append(steps, "dispatch")
    /\ drawn' = NotDrawn
    /\ fed' = [pure |-> FALSE, chars |-> <<>>]
    /\ UNCHANGED <<bound, stacksBefore, script, running, mode, bindings, kpath, events_queue, buffer, view, event,
                   fired, processed, rootAtPoll>>

\* while let Some(event) = self.events_queue.pop_front() { self.process_event(event) }
ProcessEvent ==
    /\ pc = "drain"
    /\ events_queue # <<>>
    /\ events_queue' = Tail(events_queue)
    /\ processed' = Append(processed, Head(events_queue))
    /\ \E o \in ProcessEventOn(Head(events_queue), running, buffer, view) :
         /\ running' = o.running
         /\ buffer' = o.buffer
         /\ view' = o.view
    /\ fed' = [pure |-> FALSE, chars |-> <<>>]
    /\ stacksBefore' = StackDepths(buffer)
    /\ UNCHANGED <<bound, script, pc, mode, bindings, kpath, event, fired, steps, drawn, rootAtPoll>>

\* pop_front() returned None: the loop body ends
DrainDone ==
    /\ pc = "drain"
    /\ events_queue = <<>>
    /\ pc' = "loop"
    /\ event' = NoEvent
    /\ steps' = Append(steps, "drain")
    /\ IF processed = fired
       THEN fired' = <<>> /\ processed' = <<>>
       ELSE UNCHANGED <<fired, processed>>
    /\ rootAtPoll' = TRUE
    /\ stacksBefore' = NoStacks
    /\ UNCHANGED <<bound, script, running, mode, bindings, kpath, events_queue, buffer, view,
                   drawn, fed>>

\* `while self.running` fails: start returns
Exit ==
    /\ pc = "loop"
    /\ ~running
    /\ pc' = "done"
    /\ UNCHANGED <<bound, stacksBefore, script, running, mode, bindings, kpath, events_queue, buffer, view, event,
                   fired, processed, steps, drawn, rootAtPoll, fed>>

\* the scenario of the design's section 8: "hello", five backspaces, five undos
Hello == <<"h", "e", "l", "l", "o">>

HelloScript ==
    [i \in 1..15 |-> IF i <= 5 THEN <<"Char", Hello[i]>>
                     ELSE IF i <= 10 THEN KeyFrom("backspace")
                     ELSE KeyFrom("ctrl-z")]

\* Editor::new on an empty buffer, the frontend scripted with the scenario
InitHello ==
    /\ pc = "new"
    /\ running = TRUE
    /\ mode \in {"insert", "normal"}
    /\ bindings = {}
    /\ kpath = <<>>
    /\ events_queue = <<>>
    /\ \E fp \in BOOLEAN :
           buffer = [text |-> <<>>, cursor |-> 0, undo |-> <<>>, redo |-> <<>>,
                     file_path |-> fp]
    /\ view = [overlay |-> "None", status |-> "",
               width |-> InitSize[1], height |-> InitSize[2]]
    /\ event = NoEvent
    /\ fired = <<>>
    /\ processed = <<>>
    /\ steps = <<>>
    /\ drawn = NotDrawn
    /\ rootAtPoll = TRUE
    /\ fed = [pure |-> TRUE, chars |-> <<>>]
    /\ script = HelloScript
    /\ stacksBefore = NoStacks
    /\ bound = <<>>

\* let event = self.frontend.poll_event(), the frontend delivering its script
PollScript ==
    /\ pc = "poll"
    /\ script # <<>>
    /\ event' = KeyEvent(<<Head(script)>>)
    /\ script' = Tail(script)
    /\ pc' = AfterPoll
    /\ steps' = Append(steps, "poll")
    /\ rootAtPoll' = (kpath = <<>>)
    /\ UNCHANGED <<bound, stacksBefore, running, mode, bindings, kpath, events_queue,
                   buffer, view, fired, processed, drawn, fed>>

\* Editor::new on an empty unnamed buffer, the bind_keys calls to be recorded
InitKeys ==
    /\ Init
    /\ buffer.text = <<>>

\* bind_keys called on the constructed Editor, before start, the call recorded
BindKeysRecorded ==
    /\ pc = "new"
    /\ Len(bound) < MaxBinds
    /\ \E ks \in UserKeyStrs, ev \in UserEvents :
         /\ bindings' = BindKeysOn(bindings, ks, ev)
         /\ bound' = Append(bound, <<ks, ev>>)
    /\ UNCHANGED <<stacksBefore, script, pc, running, mode, kpath, events_queue, buffer,
                   view, event, fired, processed, steps, drawn, rootAtPoll, fed>>

\* let event = self.frontend.poll_event(), the frontend delivering character keys
\* only, and only below the model's bounds
PollChar ==
    /\ pc = "poll"
    /\ Len(buffer.text) < MaxLen
    /\ Len(buffer.undo) < MaxHist
    /\ \E c \in Chars : event' = KeyEvent(<< <<"Char", c>> >>)
    /\ pc' = AfterPoll
    /\ steps' = Append(steps, "poll")
    /\ rootAtPoll' = (kpath = <<>>)
    /\ UNCHANGED <<bound, stacksBefore, script, running, mode, bindings, kpath, events_queue,
                   buffer, view, fired, processed, drawn, fed>>

Next ==
    \/ BindKeys
    \/ Start
    \/ Draw
    \/ Present
    \/ PollEvent
    \/ DispatchKey
    \/ DispatchResize
    \/ DispatchOther
    \/ ProcessEvent
    \/ DrainDone
    \/ Exit

Spec == Init /\ [][Next]_vars

NextHello ==
    \/ Start
    \/ Draw
    \/ Present
    \/ PollScript
    \/ DispatchKey
    \/ ProcessEvent
    \/ DrainDone

SpecHello == InitHello /\ [][NextHello]_vars

NextKeys ==
    \/ BindKeysRecorded
    \/ Start
    \/ Draw
    \/ Present
    \/ PollChar
    \/ DispatchKey
    \/ ProcessEvent
    \/ DrainDone

SpecKeys == InitKeys /\ [][NextKeys]_vars

---------------------------------------------------------------------------
(* Claims *)

CtrlQ == KeyFrom("ctrl-q")

QuitBound == <<(<<CtrlQ>>), "iota.quit">> \in bindings

\* the loop body has dispatched the polled event and drained the queue
IterationEnd == pc = "drain" /\ events_queue = <<>>

\* C1 as stated: with ctrl-q bound to quit, an iteration that polled ctrl-q while
\* running ends with the editor stopped, and a stopped editor is never at a
\* draw, a present or a poll.
C1_CtrlQStops ==
    /\ (IterationEnd /\ QuitBound /\ event = KeyEvent(<<CtrlQ>>)) => ~running
    /\ ~running => pc \in {"drain", "loop", "done"}

\* C1 amended: with ctrl-q bound to quit and no longer bound sequence starting
\* with ctrl-q, an iteration that polled ctrl-q while running and while the key
\* matcher held no partial match ends with the editor stopped, and a stopped
\* editor is never at a draw, a present or a poll.
C1_CtrlQStopsAtRoot ==
    /\ (/\ IterationEnd /\ QuitBound /\ event = KeyEvent(<<CtrlQ>>)
        /\ rootAtPoll
        /\ ~\E b \in bindings : IsStrictPrefix(<<CtrlQ>>, b[1]))
       => ~running
    /\ ~running => pc \in {"drain", "loop", "done"}

\* C1 witness: ctrl-q was polled at the matcher's root and the iteration ends stopped
C1_Witness ==
    /\ IterationEnd /\ QuitBound /\ event = KeyEvent(<<CtrlQ>>) /\ rootAtPoll
    /\ processed = <<"iota.quit">>
    /\ ~running

\* C2: outside the drain (so at every draw, present and poll_event, and once the
\* loop has stopped) the queue is empty and no fired event is unprocessed; when
\* the drain ends, every event fired in the iteration has been processed.
C2_QueueDrained ==
    /\ pc # "drain" => (events_queue = <<>> /\ fired = <<>> /\ processed = <<>>)
    /\ IterationEnd => processed = fired

\* C2 witness: the loop has stopped after an event was fired, and it was processed
C2_Witness == IterationEnd /\ ~running /\ fired # <<>> /\ processed = fired

KeyPolled == pc = "dispatch" /\ event.type = "KeyEvent" /\ event.key # <<>>

\* the loop is about to dispatch a character key that the key matcher does not match
UnboundCharPolled ==
    /\ KeyPolled
    /\ event.key[1][1] = "Char"
    /\ CheckKey(bindings, kpath, event.key[1]).state = "None"

\* C4: a key dispatched while an overlay is active is not fed to the key matcher
\* (its partial match stays as it was) and is not inserted into the buffer.
C4_OverlayTakesKey ==
    [][(KeyPolled /\ view.overlay # "None") =>
           (kpath' = kpath /\ buffer' = buffer)]_vars

\* C5: in normal mode with no overlay active, dispatching a character key that
\* the key matcher does not match changes neither the buffer (content, cursor)
\* nor the event queue.
C5_NormalModeNoOp ==
    [][(UnboundCharPolled /\ mode = "normal" /\ view.overlay = "None") =>
           (buffer' = buffer /\ events_queue' = events_queue)]_vars

\* C6: in insert mode with no overlay active, dispatching a character key that
\* the key matcher does not match inserts that character at the cursor and moves
\* the cursor one forward; and an editor started on an empty buffer that was fed
\* only such keys holds exactly the characters fed, the cursor after the last.
C6_InsertsTypedChars ==
    /\ [][(UnboundCharPolled /\ mode = "insert" /\ view.overlay = "None") =>
              /\ buffer'.text = InsertAt(buffer.text, buffer.cursor, <<event.key[1][2]>>)
              /\ buffer'.cursor = buffer.cursor + 1
              /\ events_queue' = events_queue]_vars
    /\ []((fed.pure /\ mode = "insert" /\ view.overlay = "None") =>
              (buffer.text = fed.chars /\ buffer.cursor = Len(fed.chars)))

\* C6 witness: an empty buffer in insert mode after the unbound keys b, b were fed
C6_Witness ==
    /\ pc = "drain" /\ mode = "insert" /\ view.overlay = "None"
    /\ fed = [pure |-> TRUE, chars |-> <<"b", "b">>]
    /\ buffer.text = <<"b", "b">> /\ buffer.cursor = 2

LoopOrder == <<"draw", "present", "poll", "dispatch", "drain">>

\* C7: every iteration runs draw, present, poll_event, the dispatch of the polled
\* event and the drain of the queue, once each and in this order, and from the
\* draw until the polled event is dispatched the buffer is as it was drawn.
C7_SequentialLoop ==
    /\ pc = "present" => steps = SubSeq(LoopOrder, 1, 1)
    /\ pc = "poll" => steps = SubSeq(LoopOrder, 1, 2)
    /\ pc = "dispatch" => steps = SubSeq(LoopOrder, 1, 3)
    /\ pc = "drain" => steps = SubSeq(LoopOrder, 1, 4)
    /\ pc \in {"loop", "done"} => steps \in {<<>>, LoopOrder}
    /\ pc = "new" => steps = <<>>
    /\ pc \in {"present", "poll", "dispatch"} =>
           (drawn.valid /\ drawn.text = buffer.text /\ drawn.cursor = buffer.cursor)

\* C7 witness: a full iteration that changed the buffer has ended, the editor running
C7_Witness == pc = "loop" /\ running /\ steps = LoopOrder /\ buffer.undo # <<>>

\* an event is being taken from the queue and processed
Processing(name) == pc = "drain" /\ events_queue # <<>> /\ Head(events_queue) = name

\* C8: the running flag changes only when a quit event is processed, and then
\* from true to false; and a save that fails (NoPathError, IOError) leaves the
\* text and the cursor as they were and the editor running.
C8_OnlyQuitStops ==
    [][/\ running' # running => (running /\ ~running' /\ Processing("iota.quit"))
       /\ (Processing("iota.save") /\ view'.status \in {"NoPathError", "IOError"}) =>
              /\ buffer'.text = buffer.text
              /\ buffer'.cursor = buffer.cursor
              /\ running' = running]_vars

\* C8 witness: a save of a changed buffer failed with IOError and the editor runs on
C8_Witness ==
    /\ IterationEnd /\ processed = <<"iota.save">> /\ view.status = "IOError"
    /\ buffer.undo # <<>> /\ running

\* the buffers one edit away from b: a character typed, a newline, a
\* delete_backwards, a delete_forwards
AfterOneEdit(b) ==
    {HandleKeyEvent(<<(<<"Char", c>>)>>, {}, <<>>, <<>>, b).buffer : c \in Chars} \cup
    {o.buffer : o \in UNION {ProcessEventOn(n, TRUE, b, view) :
         n \in {"iota.newline", "iota.delete_backwards", "iota.delete_forwards"}}}

\* C9: whatever the buffer the loop waits on, an undo right after one edit of it
\* (a character typed, a newline, a delete_backwards, a delete_forwards) gives
\* back the text and the cursor of before the edit.
C9_UndoRoundTrip ==
    pc = "poll" =>
        \A b1 \in AfterOneEdit(buffer) :
            \A o \in ProcessEventOn("iota.undo", TRUE, b1, view) :
                o.buffer.text = buffer.text /\ o.buffer.cursor = buffer.cursor

\* C10: on an empty buffer fed "hello", five backspaces and five undos: after
\* "hello" the text is "hello" and the cursor at 5; each backspace then takes the
\* last character, down to the empty text and cursor 0; each undo then gives one
\* back, last deleted first, up to "hello" and cursor 5.
C10_HelloScenario ==
    (pc = "loop" /\ Len(script) <= 10) =>
        LET n == IF Len(script) >= 5 THEN Len(script) - 5 ELSE 5 - Len(script) IN
        buffer.text = SubSeq(Hello, 1, n) /\ buffer.cursor = n

\* C10 witness: the text is empty after the backspaces
C10_WitnessEmpty ==
    pc = "loop" /\ Len(script) = 5 /\ buffer.text = <<>> /\ buffer.cursor = 0

\* C10 witness: the five undos have given back "hello", the cursor at 5
C10_Witness ==
    /\ pc = "loop" /\ script = <<>> /\ steps = LoopOrder
    /\ buffer.text = Hello /\ buffer.cursor = 5 /\ Len(buffer.redo) = 5

\* C11: processing an undo while the undo stack is empty, or a redo while the
\* redo stack is empty, changes nothing: the text, the cursor, both stacks, the
\* view (no error on its status line) and the running flag are as before.
C11_EmptyStackNoOp ==
    [][/\ (Processing("iota.undo") /\ buffer.undo = <<>>) =>
              (buffer' = buffer /\ view' = view /\ running' = running)
       /\ (Processing("iota.redo") /\ buffer.redo = <<>>) =>
              (buffer' = buffer /\ view' = view /\ running' = running)]_vars

\* C11 witness: a redo was processed on an edited buffer whose redo stack was
\* empty, and the editor runs on
C11_Witness ==
    /\ IterationEnd /\ processed = <<"iota.redo">> /\ stacksBefore.redo = 0
    /\ buffer.undo # <<>> /\ buffer.redo = <<>> /\ running

\* C11, the undo half of the case: an undo was processed on a buffer whose undo
\* stack was empty while its redo stack was not
C11_WitnessUndo ==
    /\ IterationEnd /\ processed = <<"iota.undo">> /\ stacksBefore.undo = 0
    /\ buffer.undo = <<>> /\ buffer.redo # <<>> /\ running

\* a handler is changing the text, and it is neither an undo nor a redo
EditStep ==
    /\ pc \in {"dispatch", "drain"}
    /\ buffer'.text # buffer.text
    /\ ~Processing("iota.undo") /\ ~Processing("iota.redo")

\* C12: every edit of the text (a typed character, a newline, a delete) leaves
\* the redo stack empty, so that a redo processed right after it changes nothing:
\* what was undone before the edit is not applied again.
C12_EditClearsRedo ==
    [][EditStep =>
           /\ buffer'.redo = <<>>
           /\ \A o \in ProcessEventOn("iota.redo", running', buffer', view') :
                  o.buffer = buffer']_vars

\* C12 witness: after an edit and an undo, a backspace has deleted a character:
\* the redo stack held the undone edit before the backspace and is empty after
C12_Witness ==
    /\ IterationEnd /\ processed = <<"iota.delete_backwards">>
    /\ stacksBefore.redo > 0 /\ buffer.redo = <<>>
    /\ Len(buffer.undo) = stacksBefore.undo + 1 /\ Head(buffer.undo).text # <<>>

\* the key sequences of the key strings "a b" and "a"
SeqAB == KeysOf(SplitSpaces(<<"a", " ", "b">>))

SeqA == KeysOf(SplitSpaces(<<"a">>))

\* the event the key sequence keys is bound to in bs
EventOf(bs, keys) == (CHOOSE b \in bs : b[1] = keys)[2]

IsBound(bs, keys) == \E b \in bs : b[1] = keys

\* C13: with "a b" and "a" both bound, key a fed at the matcher's root yields no
\* match (nothing queued, nothing inserted, the matcher pending on a), and key b
\* fed next yields the one match of the event of "a b", the matcher back at its
\* root; whichever of the two was bound first.
C13_LongerSequenceMatches ==
    [][(KeyPolled /\ IsBound(bindings, SeqAB) /\ IsBound(bindings, SeqA)) =>
           /\ (kpath = <<>> /\ event.key = <<SeqA[1]>>) =>
                  /\ kpath' = SeqA
                  /\ fired' = fired /\ events_queue' = events_queue
                  /\ buffer' = buffer
           /\ (kpath = SeqA /\ event.key = <<SeqAB[2]>>) =>
                  /\ kpath' = <<>>
                  /\ fired' = <<EventOf(bindings, SeqAB)>>
                  /\ events_queue' = <<EventOf(bindings, SeqAB)>>
                  /\ buffer' = buffer]_vars

\* C13 witness: "a b" was bound, then "a"; keys a, b were fed and the event of
\* "a b" was fired once, nothing inserted
C13_Witness ==
    /\ bound = << <<(<<"a", " ", "b">>), "ext.custom">>, <<(<<"a">>), "iota.undo">> >>
    /\ pc = "drain" /\ event = KeyEvent(<<SeqAB[2]>>) /\ ~rootAtPoll
    /\ fired = <<"ext.custom">> /\ kpath = <<>> /\ buffer.text = <<>>

\* C13, the other registration order: "a" was bound, then "a b"
C13_WitnessOtherOrder ==
    /\ bound = << <<(<<"a">>), "iota.undo">>, <<(<<"a", " ", "b">>), "ext.custom">> >>
    /\ pc = "drain" /\ event = KeyEvent(<<SeqAB[2]>>) /\ ~rootAtPoll
    /\ fired = <<"ext.custom">> /\ kpath = <<>> /\ buffer.text = <<>>

\* the keys fed one after the other to handle_key_event: the keymap's partial
\* match, the queue and the buffer after the last
RECURSIVE FeedKeys(_, _, _, _, _)
FeedKeys(keys, bs, path, q, b) ==
    IF keys = <<>> THEN [kpath |-> path, queue |-> q, buffer |-> b]
    ELSE LET h == HandleKeyEvent(<<Head(keys)>>, bs, path, q, b) IN
         FeedKeys(Tail(keys), bs, h.kpath, h.queue, h.buffer)

\* the last two bind_keys calls bound the same key string
Rebound == Len(bound) >= 2 /\ bound[Len(bound)][1] = bound[Len(bound) - 1][1]

\* the key sequence and the event of the last bind_keys call
LastKeys == KeysOf(SplitSpaces(bound[Len(bound)][1]))

LastEvent == bound[Len(bound)][2]

\* the keys of the last bound sequence, fed from the matcher's root with the
\* bindings start works with, queue the event of the last call, once, and nothing else
FeedQueuesLast ==
    FeedKeys(LastKeys, RegisterKeyBindings(bindings), <<>>, <<>>, buffer).queue = <<LastEvent>>

\* a bind_keys call leaves exactly one binding of its key sequence, to its
\* event, and leaves the bindings of all other sequences as they were
BindOverwrites ==
    bound' # bound =>
        LET keys == KeysOf(SplitSpaces(bound'[Len(bound')][1])) IN
        /\ {b \in bindings' : b[1] = keys} = {<<keys, bound'[Len(bound')][2]>>}
        /\ {b \in bindings' : b[1] # keys} = {b \in bindings : b[1] # keys}

\* C14 as stated: after bind_keys(s, e1) and bind_keys(s, e2), s is bound to e2
\* alone, the other bindings are as before, and feeding the keys of s queues e2
\* once and nothing else.
C14_RebindOverwrites ==
    /\ [](Rebound => FeedQueuesLast)
    /\ [][BindOverwrites]_vars

\* C14 amended: after bind_keys(s, e1) and bind_keys(s, e2), s is bound to e2
\* alone and the other bindings are as before; and when no longer bound sequence
\* starts with s, feeding the keys of s from the matcher's root queues e2 once
\* and nothing else.
C14_RebindOverwritesNoLonger ==
    /\ []((Rebound /\ ~\E b \in bindings : IsStrictPrefix(LastKeys, b[1])) => FeedQueuesLast)
    /\ [][BindOverwrites]_vars

\* C14 witness: "a" was bound to iota.undo, then to ext.custom; key a was fed and
\* ext.custom, not iota.undo, was queued
C14_Witness ==
    /\ bound = << <<(<<"a">>), "iota.undo">>, <<(<<"a">>), "ext.custom">> >>
    /\ pc = "drain" /\ event = KeyEvent(<<SeqA[1]>>) /\ rootAtPoll
    /\ fired = <<"ext.custom">> /\ events_queue = <<"ext.custom">>

\* C15: dispatching a Resize(width, height) makes the View's dimensions (width,
\* height) and changes nothing else: the queue, the key matcher's partial match,
\* the buffer (text, cursor, stacks), the overlay, the status line and the
\* running flag are as before.
C15_ResizeOnlyResizes ==
    [][(pc = "dispatch" /\ event.type = "Resize") =>
           /\ view' = [view EXCEPT !.width = event.width, !.height = event.height]
           /\ events_queue' = events_queue /\ fired' = fired
           /\ kpath' = kpath
           /\ buffer' = buffer
           /\ running' = running]_vars

\* C15 witness: a Resize(40, 10) was dispatched while the key matcher held a
\* partial match and the buffer had been edited: the View is 40 by 10, the
\* partial match is kept, nothing is queued
C15_Witness ==
    /\ pc = "drain" /\ event = Resize(40, 10)
    /\ view.width = 40 /\ view.height = 10
    /\ kpath # <<>> /\ buffer.undo # <<>> /\ events_queue = <<>> /\ running

\* the result of the key matcher for the key about to be dispatched
PolledKeyState == CheckKey(bindings, kpath, event.key[1]).state

\* C16: a dispatched key for which the key matcher answers Continue changes
\* neither the buffer nor the queue, and the matcher then holds the partial match
\* extended by that key; a key dispatched on a partial match for which the matcher
\* answers None leaves the matcher at its root, queues nothing, and changes the
\* buffer by at most the insertion of that one key (when it is a character): the
\* keys of the partial match are not inserted.
C16_PendingKeyDiscarded ==
    [][KeyPolled =>
           /\ PolledKeyState = "Continue" =>
                  /\ buffer' = buffer
                  /\ events_queue' = events_queue /\ fired' = fired
                  /\ kpath' = Append(kpath, event.key[1])
           /\ (PolledKeyState = "None" /\ kpath # <<>>) =>
                  /\ kpath' = <<>>
                  /\ events_queue' = events_queue /\ fired' = fired
                  /\ buffer'.text =
                         IF event.key[1][1] = "Char"
                         THEN InsertAt(buffer.text, buffer.cursor, <<event.key[1][2]>>)
                         ELSE buffer.text]_vars

\* C16 witness: on an empty buffer, key a was pending on "a b" and the key a that
\* followed was not matched: the text is the one a of the second key
C16_Witness ==
    /\ pc = "drain" /\ ~rootAtPoll /\ event = KeyEvent(<<SeqA[1]>>)
    /\ kpath = <<>> /\ fired = <<>> /\ events_queue = <<>>
    /\ ~buffer.file_path /\ buffer.text = <<"a">> /\ Len(buffer.undo) = 1
    /\ buffer.redo = <<>>

\* C17: the queue never holds more than one event; a dispatch queues at most
\* one event, and only for a key the key matcher matches; processing an event
\* takes it from the queue and queues nothing.
C17_AtMostOneQueued ==
    /\ [](Len(events_queue) <= 1)
    /\ [][/\ pc = "dispatch" =>
                 /\ Len(events_queue') <= Len(events_queue) + 1
                 /\ events_queue' # events_queue => (KeyPolled /\ PolledKeyState = "Match")
          /\ (pc = "drain" /\ events_queue # <<>>) =>
                 events_queue' = Tail(events_queue)]_vars

\* C17 witness: a matched key has queued its one event
C17_Witness ==
    /\ pc = "drain" /\ Len(events_queue) = 1 /\ fired = events_queue
    /\ event.type = "KeyEvent" /\ event.key # <<>>

\* the polled event is a KeyEvent without a key, or neither a key nor a resize
NothingPolled == event = KeyEvent(<<>>) \/ event.type \notin {"KeyEvent", "Resize"}

\* C18: dispatching a KeyEvent without a key, or an event that is neither a key
\* nor a resize, changes nothing (the key matcher's partial match, the buffer,
\* the view, the queue and the running flag are as before), and the iteration
\* ends with an empty queue and the editor running.
C18_NothingEventNoOp ==
    /\ [][(pc = "dispatch" /\ NothingPolled) =>
              /\ kpath' = kpath
              /\ buffer' = buffer
              /\ view' = view
              /\ events_queue' = events_queue /\ fired' = fired
              /\ running' = running
              /\ pc' = "drain"]_vars
    /\ []((pc = "drain" /\ NothingPolled) => (events_queue = <<>> /\ running))

\* C18 witness: a KeyEvent without a key was dispatched while the key matcher
\* held a partial match and the buffer had been edited; the partial match is kept
C18_Witness ==
    /\ IterationEnd /\ event = KeyEvent(<<>>)
    /\ kpath # <<>> /\ ~rootAtPoll /\ buffer.undo # <<>> /\ running

\* C18, the other half of the case: an event that is neither a key nor a resize
C18_WitnessOther ==
    /\ IterationEnd /\ event = OtherEvent
    /\ kpath # <<>> /\ ~rootAtPoll /\ buffer.undo # <<>> /\ running

\* C19: dispatching a key that is not a character and that the key matcher does
\* not match changes neither the buffer nor the queue; and a dispatch that
\* changes the buffer is that of a character key the key matcher does not match.
C19_OnlyCharsInserted ==
    [][/\ (KeyPolled /\ event.key[1][1] # "Char" /\ PolledKeyState = "None") =>
              (buffer' = buffer /\ events_queue' = events_queue /\ fired' = fired)
       /\ (pc = "dispatch" /\ buffer' # buffer) => UnboundCharPolled]_vars

\* C19 witness: the unbound function key f1 was dispatched on an edited buffer,
\* nothing was queued
C19_Witness ==
    /\ pc = "drain" /\ event = KeyEvent(<<KeyFrom("f1")>>)
    /\ fired = <<>> /\ events_queue = <<>>
    /\ buffer.text # <<>> /\ buffer.undo # <<>>

====
